---------------------------- MODULE Spec2Model ----------------------------
(***************************************************************************)
(* A model of pyvsu.py, the VSU-2 ROM programming and configuration        *)
(* utility: the sector transport (read_sector, write_sector), the bulk     *)
(* operations (dump_image, write_image, write_rom), the configuration      *)
(* functions and the dispatch of one invocation, run against a device      *)
(* that answers on the serial link.                                        *)
(*                                                                         *)
(* A sector holds SectorSize bytes.  The program's sector is 256 bytes;    *)
(* the model keeps every other number of the program (256 sectors, 16      *)
(* sectors per ROM, the 112 sector offset, 8 channels) and scales only the *)
(* sector's byte length, from which the ROM and image sizes derive.        *)
(***************************************************************************)
EXTENDS Integers, Sequences, FiniteSets, TLC

\* ------------------------------------------------------------------ bounds
\* Bytes per sector (256 in the program; at least 16 for the configuration).
SectorSize == 17
\* The device may misbehave during the first FaultCalls transmitting
\* read_sector / write_sector calls of an invocation.
FaultCalls == 2

\* --------------------------------------------------------- program numbers
NumSectors == 256
SlotSectors == 16
FirstRomSector == 2
CustomOffset == 112
NumSlots == 7
NumChannels == 8
SpeedOffset == 8
CmdRead == 114
CmdWrite == 119
AckByte == 43
PadByte == 255
MaxFiles == 2

\* 2048, 4096 and 65536 bytes at 256 bytes per sector.
HalfRomSize == 8 * SectorSize
RomSize == SlotSectors * SectorSize
ImageSize == NumSectors * SectorSize

Byte(n) == n % 256
Fill(n, b) == [k \in 1..n |-> b]
Min(a, b) == IF a < b THEN a ELSE b

\* data[lo:hi] of Python: the bytes at offsets lo .. hi-1, cut to the data.
Slice(s, lo, hi) == SubSeq(s, lo + 1, Min(hi, Len(s)))

\* ------------------------------------------------------------- the device
\* What the flash holds before the first invocation: every sector differs.
InitMem == [s \in 0..(NumSectors - 1) |-> [k \in 1..SectorSize |-> Byte(s + 2 * k)]]

\* A response damaged on the link, and one cut short by the read timeout.
Corrupt(d) == IF Len(d) = 0 THEN <<0>> ELSE [d EXCEPT ![1] = Byte(d[1] + 1)]
Short(d) == SubSeq(d, 1, Len(d) \div 2)

\* The answers serial.read(256) can give after the command bytes cmd: the
\* device sends the sector a read command names, and nothing otherwise.
DataResponses(m, cmd, faulty) ==
    IF cmd[1] # CmdRead \/ cmd[2] \notin DOMAIN m THEN {<<>>}
    ELSE IF faulty THEN {m[cmd[2]], Corrupt(m[cmd[2]]), Short(m[cmd[2]])}
    ELSE {m[cmd[2]]}

\* The answers serial.read(1) can give: '+', another byte, or a timeout.
AckResponses(faulty) ==
    IF faulty THEN {<<AckByte>>, <<45>>, <<>>} ELSE {<<AckByte>>}

\* What the device holds after the command bytes cmd and the bytes d: a
\* write command programs the sector it names, but never sector 0; a
\* misbehaving device may drop or damage the write.
StoreResults(m, cmd, d, faulty) ==
    IF cmd[1] # CmdWrite \/ cmd[2] = 0 \/ cmd[2] \notin DOMAIN m THEN {m}
    ELSE IF faulty
    THEN {[m EXCEPT ![cmd[2]] = d], m, [m EXCEPT ![cmd[2]] = Corrupt(d)]}
    ELSE {[m EXCEPT ![cmd[2]] = d]}

\* ---------------------------------------------------------------- files
ImgA == [o \in 1..ImageSize |-> Byte(3 * o + 1)]
RomU9 == [o \in 1..HalfRomSize |-> Byte(5 * o)]
RomU10 == [o \in 1..HalfRomSize |-> Byte(7 * o + 2)]
\* A file: absent, bytes, or a JSON document.
NoFile == [kind |-> "none", body |-> <<>>]
Bin(b) == [kind |-> "bin", body |-> b]
Json(j) == [kind |-> "json", body |-> j]
AllChannels == 0..(NumChannels - 1)
\* str(x), the key of channel x in the JSON file, and back.
ChannelKey(c) == <<"0", "1", "2", "3", "4", "5", "6", "7">>[c + 1]
KeyChannel(k) == CHOOSE c \in AllChannels : ChannelKey(c) = k
Keyed(chans, f) == [k \in {ChannelKey(c) : c \in chans} |-> f[KeyChannel(k)]]
ConfOk == [volume |-> Keyed(AllChannels, [c \in AllChannels |-> c]),
           sample_rate |-> Keyed(AllChannels, [c \in AllChannels |-> 10 + c])]
ConfNoVolume == [volume |-> Keyed(AllChannels \ {3}, [c \in AllChannels |-> c]),
                 sample_rate |-> Keyed(AllChannels, [c \in AllChannels |-> 10 + c])]
ConfNoRate == [volume |-> Keyed(AllChannels, [c \in AllChannels |-> 17]),
               sample_rate |-> Keyed(AllChannels \ {7}, [c \in AllChannels |-> 200 + c])]
ConfBig == [volume |-> Keyed(AllChannels, [c \in AllChannels |-> IF c = 5 THEN 256 ELSE c]),
            sample_rate |-> Keyed(AllChannels, [c \in AllChannels |-> 255])]

\* The files on disk that no invocation writes.
InputFile(name) ==
    CASE name = "image.bin" -> Bin(ImgA)
      [] name = "short.bin" -> Bin(SubSeq(ImgA, 1, ImageSize - 1))
      [] name = "long.bin" -> Bin(ImgA \o <<0>>)
      [] name = "tiny.bin" -> Bin(SubSeq(ImgA, 1, 2 * SectorSize + 3))
      [] name = "u9.716" -> Bin(RomU9)
      [] name = "u10.716" -> Bin(RomU10)
      [] name = "rom4k.bin" -> Bin(RomU10 \o RomU9)
      [] name = "conf.json" -> Json(ConfOk)
      [] name = "novolume.json" -> Json(ConfNoVolume)
      [] name = "norate.json" -> Json(ConfNoRate)
      [] name = "big.json" -> Json(ConfBig)
      [] OTHER -> NoFile
OutName == "out"

\* ------------------------------------------------------- the command line
\* args of one invocation: the flags, the slot lists (nargs=1: a one-element
\* list, or nothing) and the file names.  calls is the sequence of transport
\* calls of a caller that uses read_sector / write_sector directly.
Cli(d, w, i, u, g, c, files) ==
    [kind |-> "cli", dump |-> d, write |-> w, info |-> i, update |-> u,
     game |-> g, custom |-> c, bin |-> files, calls |-> <<>>]
Api(cs) ==
    [kind |-> "api", dump |-> FALSE, write |-> FALSE, info |-> FALSE,
     update |-> FALSE, game |-> <<>>, custom |-> <<>>, bin |-> <<>>, calls |-> cs]

Slots == 0..(NumSlots - 1)
DumpCmds ==
    {Cli(TRUE, FALSE, FALSE, FALSE, <<>>, <<>>, f) :
        f \in {<<>>, <<OutName>>, <<OutName, "image.bin">>,
               <<OutName, "image.bin", "long.bin">>}}
WriteCmds ==
    {Cli(FALSE, TRUE, FALSE, FALSE, <<>>, <<>>, f) :
        f \in {<<>>, <<"image.bin">>, <<"short.bin">>, <<"long.bin">>,
               <<"tiny.bin">>, <<"missing.bin">>, <<"image.bin", "long.bin">>}}
InfoCmds ==
    {Cli(FALSE, FALSE, TRUE, FALSE, g, <<>>, f) :
        g \in {<<>>, <<0>>}, f \in {<<>>, <<OutName>>, <<OutName, "conf.json">>}}
UpdateCmds ==
    {Cli(FALSE, FALSE, FALSE, TRUE, <<>>, c, f) :
        c \in {<<>>, <<6>>},
        f \in {<<>>, <<"conf.json">>, <<"novolume.json">>, <<"norate.json">>,
               <<"big.json">>, <<"missing.json">>}}
RomFiles ==
    {<<>>, <<"u9.716">>, <<"u9.716", "u10.716">>, <<"rom4k.bin">>,
     <<"rom4k.bin", "u9.716">>, <<"u9.716", "u10.716", "u9.716">>}
GameCmds ==
    {Cli(FALSE, FALSE, FALSE, FALSE, <<g>>, <<>>, f) : g \in Slots, f \in RomFiles}
CustomCmds ==
    {Cli(FALSE, FALSE, FALSE, FALSE, <<>>, <<c>>, f) : c \in Slots, f \in RomFiles}
NoCmd == Cli(FALSE, FALSE, FALSE, FALSE, <<>>, <<>>, <<>>)

\* Direct callers of the transport: a write_sector followed by a read_sector
\* of the same sector, and a read_sector alone.
Payloads ==
    {Fill(SectorSize, 0), [k \in 1..SectorSize |-> Byte(250 + k)],
     Fill(SectorSize - 1, 7), Fill(SectorSize + 1, 7), <<>>}
ApiSectors == {-1, 0, 1, 2, 255, 256}
ApiCmds ==
    {Api(<<<<"write_sector", i, d>>, <<"read_sector", i, <<>>>>>>) :
        i \in ApiSectors, d \in Payloads}
    \cup {Api(<<<<"read_sector", i, <<>>>>>>) : i \in ApiSectors}

\* One invocation, the device free to misbehave on its first calls; or
\* several invocations in a row against a device that behaves.
Scenarios ==
    {[script |-> <<c>>, faults |-> FaultCalls] :
        c \in DumpCmds \cup WriteCmds \cup InfoCmds \cup UpdateCmds
              \cup GameCmds \cup CustomCmds \cup ApiCmds \cup {NoCmd}}
    \cup
    {[script |-> s, faults |-> 0] :
        s \in {<<Cli(TRUE, FALSE, FALSE, FALSE, <<>>, <<>>, <<OutName>>),
                 Cli(FALSE, FALSE, FALSE, FALSE, <<0>>, <<>>, <<"u9.716">>),
                 Cli(FALSE, TRUE, FALSE, FALSE, <<>>, <<>>, <<OutName>>)>>,
               <<Cli(FALSE, FALSE, TRUE, FALSE, <<>>, <<>>, <<OutName>>),
                 Cli(FALSE, FALSE, FALSE, TRUE, <<>>, <<>>, <<"conf.json">>),
                 Cli(FALSE, FALSE, FALSE, TRUE, <<>>, <<>>, <<OutName>>)>>}}

\* ------------------------------------------------------------------ state
VARIABLES
    pending,      \* the invocations still to run
    args,         \* the running invocation's command line
    link,         \* vsu_rom: "closed" or "open"
    pc,           \* where the invocation stands
    outcome,      \* "running", "complete", or the exception that ended it
    exc,          \* the exception's payload (sector, length, message)
    mem,          \* the device's 256 sectors
    outfile,      \* the file OutName on disk
    wire,         \* every message written to the link in this invocation
    trace,        \* the link events of the running transport call
    sector,       \* read_sector / write_sector parameter
    data,         \* write_sector parameter
    ret,          \* the last value read_sector returned
    wcaller,      \* who called write_sector
    rcaller,      \* who called read_sector
    x,            \* the loop index of the bulk operation
    base,         \* write_rom's sector parameter
    buf,          \* dump_image's data, rom_data, factory
    fpos,         \* the image file's read position
    nfault,       \* transport calls the device may still misbehave in
    faithful,     \* the device has behaved in this invocation so far
    memAtStart    \* the device's sectors when the invocation began

vars ==
    <<pending, args, link, pc, outcome, exc, mem, outfile, wire, trace, sector,
      data, ret, wcaller, rcaller, x, base, buf, fpos, nfault, faithful,
      memAtStart>>

\* The locals of an invocation that has not run any code yet.
FreshLocals ==
    /\ wire = <<>> /\ trace = <<>> /\ sector = 0 /\ data = <<>>
    /\ ret = <<>> /\ wcaller = "" /\ rcaller = ""
    /\ x = 0 /\ base = 0 /\ buf = <<>> /\ fpos = 0

Init ==
    /\ \E sc \in Scenarios : pending = sc.script /\ nfault = sc.faults
    /\ args = NoCmd
    /\ link = "closed"
    /\ pc = "idle"
    /\ outcome = "none"
    /\ exc = <<>>
    /\ mem = InitMem
    /\ outfile = NoFile
    /\ faithful = TRUE
    /\ memAtStart = InitMem
    /\ FreshLocals

\* ---------------------------------------------------------------- helpers
ctlVars == <<pending, args, link, memAtStart>>
loopVars == <<x, base, buf, fpos>>

Faulty == nfault > 0
\* One event on the link: bytes written, bytes read (n asked for), a sleep.
Event(e, n, b) == [ev |-> e, n |-> n, bytes |-> b]
\* One vsu_rom.write: a two byte command, or a sector's data.
Msg(k, b) == [kind |-> k, bytes |-> b]

\* Where read_sector and write_sector return to.
ReadReturnPc(who) ==
    CASE who = "dump_image" -> "dump_ret"
      [] who = "factory" -> "disp_user"
      [] who = "user" -> "disp_show"
      [] OTHER -> "api_next"
WriteReturnPc(who) ==
    CASE who = "write_image" -> "wi_loop"
      [] who = "write_rom" -> "wr_loop"
      [] who = "update_configuration" -> "disp_factory"
      [] OTHER -> "api_next"

\* Mutant of Raise: a failure in write_sector is noted and the caller goes on.
Raise_Continues(e, payload) ==
    /\ outcome' = e
    /\ exc' = payload
    /\ pc' = IF pc = "write_sector" THEN WriteReturnPc(wcaller) ELSE "closing"

\* Mutant of Raise: the exception ends the invocation with the port left
\* as it is.
Raise_NoClose(e, payload) ==
    /\ outcome' = e
    /\ exc' = payload
    /\ pc' = "idle"

\* The messages that link events put on the wire: one for each
\* vsu_rom.write, a command being two bytes long.
RECURSIVE Sent(_)
Sent(events) ==
    IF events = <<>> THEN <<>>
    ELSE IF Head(events).ev = "tx"
    THEN <<Msg(IF Len(Head(events).bytes) = 2 THEN "cmd" ELSE "data",
               Head(events).bytes)>> \o Sent(Tail(events))
    ELSE Sent(Tail(events))

\* An exception (SystemExit among them) leaves the with block.
Raise(e, payload) ==
    /\ outcome' = e
    /\ exc' = payload
    /\ pc' = "closing"
NoRaise == UNCHANGED <<outcome, exc>>

CallRead(s, who) ==
    /\ sector' = s
    /\ rcaller' = who
    /\ trace' = <<>>
    /\ pc' = "read_sector"
CallWrite(s, d, who) ==
    /\ sector' = s
    /\ data' = d
    /\ wcaller' = who
    /\ trace' = <<>>
    /\ pc' = "write_sector"

\* A transport call that returned uses up one of the calls the device may
\* misbehave in.
CallDone == nfault' = IF nfault > 0 THEN nfault - 1 ELSE 0

\* ------------------------------------------------------------ read_sector
\* Mutant of ReadCommand: the opcode sent is the write opcode.
ReadCommand_AsWrite(s) == <<CmdWrite, s>>

\* bytes([114,sector])
ReadCommand(s) == <<CmdRead, s>>

\* Mutant of ReadAcked: the acknowledgment is not looked at.
ReadAcked_Ignored(a) == TRUE

\* vsu_rom.read(1) != b'+' is false
ReadAcked(a) == a = <<AckByte>>

\* What the two reads of read_sector(s) can get from a device holding m:
\* sector_data = vsu_rom.read(256), then vsu_rom.read(1).
ReadExchange(m, s, faulty) ==
    {[sector_data |-> r, ack |-> a] :
        r \in DataResponses(m, ReadCommand(s), faulty), a \in AckResponses(faulty)}

\* Mutant of ReadEvents: an exchange whose acknowledgment is not '+' is
\* made a second time.
ReadEvents_Retry(s, e) ==
    LET once == <<Event("tx", 2, ReadCommand(s)),
                  Event("rx", SectorSize, e.sector_data),
                  Event("rx", 1, e.ack)>> IN
    IF e.ack = <<AckByte>> THEN once ELSE once \o once

\* The link events of read_sector(s), in the order of its statements.
ReadEvents(s, e) ==
    <<Event("tx", 2, ReadCommand(s)),
      Event("rx", SectorSize, e.sector_data),
      Event("rx", 1, e.ack)>>

\* read_sector(sector), called by dump_image, display_configuration or a
\* direct caller.  bytes() takes 0..255 only.
ReadSector ==
    /\ pc = "read_sector"
    /\ IF sector \notin 0..255
       THEN /\ Raise("ValueError", <<sector>>)
            /\ UNCHANGED <<wire, trace, ret, nfault, faithful>>
       ELSE \E e \in ReadExchange(mem, sector, Faulty) :
            /\ trace' = ReadEvents(sector, e)
            /\ wire' = wire \o Sent(trace')
            /\ faithful' = (faithful /\ e \in ReadExchange(mem, sector, FALSE))
            /\ IF ~ReadAcked(e.ack)
               THEN /\ Raise("ReadSectorException", <<sector>>)
                    /\ UNCHANGED <<ret, nfault>>
               ELSE /\ ret' = e.sector_data
                    /\ pc' = ReadReturnPc(rcaller)
                    /\ CallDone
                    /\ NoRaise
    /\ UNCHANGED <<ctlVars, loopVars, mem, outfile, sector, data, wcaller,
                   rcaller>>

\* ----------------------------------------------------------- write_sector
\* bytes([119,sector])
WriteCommand(s) == <<CmdWrite, s>>

\* Mutants of CheckSector: sector 1 is skipped as well; sector 0 is not
\* skipped; the length is checked before the sector.
CheckSector_SkipsOne(s, d) ==
    IF s <= 1 \/ s >= 256 THEN "return"
    ELSE IF Len(d) # SectorSize THEN "raise" ELSE "send"
CheckSector_SendsZero(s, d) ==
    IF s >= 256 THEN "return"
    ELSE IF Len(d) # SectorSize THEN "raise" ELSE "send"
CheckSector_LengthFirst(s, d) ==
    IF Len(d) # SectorSize THEN "raise"
    ELSE IF s = 0 \/ s >= 256 THEN "return" ELSE "send"

\* if sector == 0 or sector >= 256: return
\* if len(data) != 256: raise IncompleteDataException(len(data))
CheckSector(s, d) ==
    IF s = 0 \/ s >= 256 THEN "return"
    ELSE IF Len(d) # SectorSize THEN "raise" ELSE "send"

\* vsu_rom.read(1) != b'+' is false
WriteAcked(a) == a = <<AckByte>>

\* Mutant of Verified: the read-back is not compared.
Verified_NotCompared(r, d) == TRUE

\* read_sector(sector) != data is false
Verified(r, d) == r = d

\* Mutant of WriteEvents: the sleep comes after the acknowledgment is read.
WriteEvents_SleepLast(s, d, a) ==
    <<Event("tx", 2, WriteCommand(s)),
      Event("tx", Len(d), d),
      Event("rx", 1, a),
      Event("sleep", 0, <<>>)>>

\* Mutant of Propagated: write_sector reports the read-back's exception as
\* its own.
Propagated_AsWriteFailure(e) == "WriteSectorException"

\* read_sector(sector) is called with no try around it: what it raises
\* leaves write_sector as it is.
Propagated(e) == e

\* The link events of write_sector(s, d) up to its acknowledgment, in the
\* order of its statements: command, data, time.sleep(.01), read(1).
WriteEvents(s, d, a) ==
    <<Event("tx", 2, WriteCommand(s)),
      Event("tx", Len(d), d),
      Event("sleep", 0, <<>>),
      Event("rx", 1, a)>>

\* write_sector(sector, data): the two checks, the write exchange (the
\* device programs the sector once it has the command and the data), then
\* read_sector(sector) and the comparison.
WriteSector ==
    /\ pc = "write_sector"
    /\ IF CheckSector(sector, data) = "return"
       THEN /\ pc' = WriteReturnPc(wcaller)
            /\ NoRaise
            /\ UNCHANGED <<mem, wire, trace, ret, nfault, faithful>>
       ELSE IF CheckSector(sector, data) = "raise"
       THEN /\ Raise("IncompleteDataException", <<Len(data)>>)
            /\ UNCHANGED <<mem, wire, trace, ret, nfault, faithful>>
       ELSE IF sector \notin 0..255
       THEN /\ Raise("ValueError", <<sector>>)
            /\ UNCHANGED <<mem, wire, trace, ret, nfault, faithful>>
       ELSE \E m \in StoreResults(mem, WriteCommand(sector), data, Faulty),
               a \in AckResponses(Faulty) :
            /\ mem' = m
            /\ IF ~WriteAcked(a)
               THEN /\ trace' = WriteEvents(sector, data, a)
                    /\ wire' = wire \o Sent(trace')
                    /\ faithful' = FALSE
                    /\ Raise("WriteSectorException", <<sector>>)
                    /\ UNCHANGED <<ret, nfault>>
               ELSE \E e \in ReadExchange(m, sector, Faulty) :
                    /\ trace' = WriteEvents(sector, data, a) \o ReadEvents(sector, e)
                    /\ wire' = wire \o Sent(trace')
                    /\ faithful' =
                        (/\ faithful
                         /\ m \in StoreResults(mem, WriteCommand(sector), data, FALSE)
                         /\ e \in ReadExchange(m, sector, FALSE))
                    /\ IF ~ReadAcked(e.ack)
                       THEN /\ Raise(Propagated("ReadSectorException"), <<sector>>)
                            /\ UNCHANGED <<ret, nfault>>
                       ELSE IF ~Verified(e.sector_data, data)
                       THEN /\ Raise("WriteSectorException", <<sector>>)
                            /\ ret' = e.sector_data
                            /\ UNCHANGED nfault
                       ELSE /\ pc' = WriteReturnPc(wcaller)
                            /\ ret' = e.sector_data
                            /\ CallDone
                            /\ NoRaise
    /\ UNCHANGED <<ctlVars, loopVars, outfile, sector, data, wcaller, rcaller>>
\* ------------------------------------------------------------------ files
ReadFile(name) == IF name = OutName THEN outfile ELSE InputFile(name)
FilesExist(names) == \A k \in 1..Len(names) : ReadFile(names[k]).kind # "none"

\* ------------------------------------------------------------- dump_image
\* for x in range(256): data.extend(read_sector(x))
\* with open(filename, 'wb') as output: output.write(data)
DumpLoop ==
    /\ pc = "dump_loop"
    /\ IF x < NumSectors
       THEN /\ CallRead(x, "dump_image")
            /\ x' = x + 1
            /\ UNCHANGED outfile
       ELSE /\ outfile' = Bin(buf)
            /\ pc' = "finish"
            /\ UNCHANGED <<x, sector, rcaller, trace>>
    /\ UNCHANGED <<ctlVars, outcome, exc, mem, wire, data, ret,
                   wcaller, base, buf, fpos, nfault, faithful>>

\* Mutant of Extend: the sector read goes in front.
Extend_InFront(b, r) == r \o b

\* data.extend(...)
Extend(b, r) == b \o r

DumpExtend ==
    /\ pc = "dump_ret"
    /\ buf' = Extend(buf, ret)
    /\ pc' = "dump_loop"
    /\ UNCHANGED <<ctlVars, outcome, exc, mem, outfile, wire, trace, sector,
                   data, ret, wcaller, rcaller, x, base, fpos,
                   nfault, faithful>>

\* ------------------------------------------------------------ write_image
\* Mutant of ImageSizeOk: the size is not checked.
ImageSizeOk_Unchecked(image_data) == TRUE

\* len(image_data) != 65536 is false
ImageSizeOk(image_data) == Len(image_data) = ImageSize

\* Mutant of SeekStart: image.read() has left the position at the end.
SeekStart_Missing(image_data) == Len(image_data)

\* image.seek(0): the read position after it.
SeekStart(image_data) == Len(image_data) - Len(image_data)

\* image_data = image.read(); the size check; image.seek(0)
WriteImageOpen ==
    /\ pc = "wi_open"
    /\ LET image_data == ReadFile(args.bin[1]).body IN
        IF ReadFile(args.bin[1]).kind = "none"
        THEN Raise("FileNotFoundError", <<args.bin[1]>>) /\ UNCHANGED loopVars
        ELSE IF ~ImageSizeOk(image_data)
        THEN Raise("SystemExit", <<"image file size">>) /\ UNCHANGED loopVars
        ELSE /\ fpos' = SeekStart(image_data)
             /\ x' = 0
             /\ pc' = "wi_loop"
             /\ NoRaise
             /\ UNCHANGED <<base, buf>>
    /\ UNCHANGED <<ctlVars, mem, outfile, wire, trace, sector, data,
                   ret, wcaller, rcaller, nfault, faithful>>

\* for x in range(256): write_sector(x, image.read(256))
WriteImageLoop ==
    /\ pc = "wi_loop"
    /\ IF x < NumSectors
       THEN LET image == ReadFile(args.bin[1]).body
                chunk == Slice(image, fpos, fpos + SectorSize) IN
            /\ CallWrite(x, chunk, "write_image")
            /\ fpos' = fpos + Len(chunk)
            /\ x' = x + 1
       ELSE /\ pc' = "finish"
            /\ UNCHANGED <<x, fpos, sector, data, wcaller, trace>>
    /\ UNCHANGED <<ctlVars, outcome, exc, mem, outfile, wire, ret,
                   rcaller, base, buf, nfault, faithful>>

\* -------------------------------------------------------------- write_rom
\* Mutant of SlotSector: the custom slots start 96 sectors on.
SlotSector_Offset96(a) ==
    IF Len(a.game) > 0
    THEN FirstRomSector + a.game[1] * SlotSectors
    ELSE FirstRomSector + (a.custom[1] * SlotSectors) + 96

\* sector = 2, plus game*16, or custom*16 + 112
SlotSector(a) ==
    IF Len(a.game) > 0
    THEN FirstRomSector + a.game[1] * SlotSectors
    ELSE FirstRomSector + (a.custom[1] * SlotSectors) + CustomOffset

\* for f in args.bin: rom_data.extend(rom_file.read())
RECURSIVE RomData(_)
RomData(names) ==
    IF names = <<>> THEN <<>>
    ELSE ReadFile(Head(names)).body \o RomData(Tail(names))

\* Mutant of PadRom: the padding is zero bytes.
PadRom_Zeros(rom_data) ==
    IF Len(rom_data) = HalfRomSize
    THEN rom_data \o Fill(HalfRomSize, 0)
    ELSE rom_data

\* if len(rom_data) == 2048: rom_data.extend(b'\xff' * 2048)
PadRom(rom_data) ==
    IF Len(rom_data) = HalfRomSize
    THEN rom_data \o Fill(HalfRomSize, PadByte)
    ELSE rom_data

\* The game / custom branch up to the call of write_rom.
RomPrepare ==
    /\ pc = "rom"
    /\ IF ~FilesExist(args.bin)
       THEN Raise("FileNotFoundError", <<>>) /\ UNCHANGED loopVars
       ELSE LET rom_data == PadRom(RomData(args.bin)) IN
            IF Len(rom_data) # RomSize
            THEN Raise("SystemExit", <<"ROM size">>) /\ UNCHANGED loopVars
            ELSE /\ base' = SlotSector(args)
                 /\ buf' = rom_data
                 /\ x' = 0
                 /\ pc' = "wr_loop"
                 /\ NoRaise
                 /\ UNCHANGED fpos
    /\ UNCHANGED <<ctlVars, mem, outfile, wire, trace, sector, data,
                   ret, wcaller, rcaller, nfault, faithful>>

\* Mutant of RomSlice: the slices are taken from the end of the ROM.
RomSlice_FromEnd(rom_data, k) ==
    Slice(rom_data, (SlotSectors - 1 - k) * SectorSize,
          ((SlotSectors - 1 - k) * SectorSize) + SectorSize)

\* data[x*256:(x*256)+256]
RomSlice(rom_data, k) ==
    Slice(rom_data, k * SectorSize, (k * SectorSize) + SectorSize)

\* for x in range(16): write_sector(sector+x, data[x*256:(x*256)+256])
WriteRomLoop ==
    /\ pc = "wr_loop"
    /\ IF x < SlotSectors
       THEN /\ CallWrite(base + x, RomSlice(buf, x), "write_rom")
            /\ x' = x + 1
       ELSE /\ pc' = "finish"
            /\ UNCHANGED <<x, sector, data, wcaller, trace>>
    /\ UNCHANGED <<ctlVars, outcome, exc, mem, outfile, wire, ret,
                   rcaller, base, buf, fpos, nfault, faithful>>

\* ---------------------------------------------------------- configuration
\* sector_data = bytearray(b'\xff'*256), then for x in range(8):
\* sector_data[x] = conf['volume'][str(x)];
\* sector_data[x+8] = conf['sample_rate'][str(x)]
RECURSIVE EncodeFrom(_, _, _)
EncodeFrom(conf, sd, c) ==
    LET key == ChannelKey(c) IN
    IF c = NumChannels THEN [err |-> "none", arg |-> <<>>, data |-> sd]
    ELSE IF key \notin DOMAIN conf.volume
    THEN [err |-> "KeyError", arg |-> <<key>>, data |-> sd]
    ELSE IF conf.volume[key] \notin 0..255
    THEN [err |-> "ValueError", arg |-> <<key>>, data |-> sd]
    ELSE IF key \notin DOMAIN conf.sample_rate
    THEN [err |-> "KeyError", arg |-> <<key>>, data |-> sd]
    ELSE IF conf.sample_rate[key] \notin 0..255
    THEN [err |-> "ValueError", arg |-> <<key>>, data |-> sd]
    ELSE EncodeFrom(conf,
                    [sd EXCEPT ![c + 1] = conf.volume[key],
                               ![c + SpeedOffset + 1] = conf.sample_rate[key]],
                    c + 1)
EncodeConf(conf) == EncodeFrom(conf, Fill(SectorSize, PadByte), 0)

\* Mutant of DecodeConf: the volumes are taken from bytes 8..15 and the
\* sample rates from bytes 0..7.
DecodeConf_Swapped(user) ==
    [volume |-> [k \in {ChannelKey(c) : c \in AllChannels} |->
                    user[KeyChannel(k) + SpeedOffset + 1]],
     sample_rate |-> [k \in {ChannelKey(c) : c \in AllChannels} |-> user[KeyChannel(k) + 1]]]

\* u_spd = {i:_ for i, _ in enumerate(user[8:16])}; u_vol likewise from
\* user[0:8]; json.dump writes the keys as strings.
DecodeConf(user) ==
    [volume |-> [k \in {ChannelKey(c) : c \in AllChannels} |-> user[KeyChannel(k) + 1]],
     sample_rate |-> [k \in {ChannelKey(c) : c \in AllChannels} |->
                         user[KeyChannel(k) + SpeedOffset + 1]]]

\* Mutant of EncodeOk: the sector is written however far the loop got.
EncodeOk_Always(enc) == TRUE

\* The loop over the channels ran to its end: no lookup raised.
EncodeOk(enc) == enc.err = "none"

\* update_configuration up to its call of write_sector(1, sector_data)
UpdatePrepare ==
    /\ pc = "upd"
    /\ LET conf == ReadFile(args.bin[1]).body IN
        IF ReadFile(args.bin[1]).kind = "none"
        THEN /\ Raise("FileNotFoundError", <<args.bin[1]>>)
             /\ UNCHANGED <<sector, data, wcaller, trace>>
        ELSE LET enc == EncodeConf(conf) IN
             IF ~EncodeOk(enc)
             THEN /\ Raise(enc.err, enc.arg)
                  /\ UNCHANGED <<sector, data, wcaller, trace>>
             ELSE CallWrite(1, enc.data, "update_configuration") /\ NoRaise
    /\ UNCHANGED <<ctlVars, loopVars, mem, outfile, wire, ret,
                   rcaller, nfault, faithful>>

\* factory = read_sector(0)
DisplayFactory ==
    /\ pc = "disp_factory"
    /\ CallRead(0, "factory")
    /\ UNCHANGED <<ctlVars, loopVars, outcome, exc, mem, outfile, wire, data,
                   ret, wcaller, nfault, faithful>>

\* user = read_sector(1)
DisplayUser ==
    /\ pc = "disp_user"
    /\ buf' = ret
    /\ CallRead(1, "user")
    /\ UNCHANGED <<ctlVars, outcome, exc, mem, outfile, wire, data, ret, wcaller, x, base, fpos, nfault, faithful>>

\* The table (factory[x], user[x], factory[x+8], user[x+8] for x in
\* range(8)) and, with an out_file, the JSON file.
DisplayShow ==
    /\ pc = "disp_show"
    /\ IF Len(buf) < NumChannels + SpeedOffset \/ Len(ret) < NumChannels + SpeedOffset
       THEN Raise("IndexError", <<>>) /\ UNCHANGED outfile
       ELSE /\ outfile' = IF args.info /\ Len(args.bin) = 1
                          THEN Json(DecodeConf(ret)) ELSE outfile
            /\ pc' = "finish"
            /\ NoRaise
    /\ UNCHANGED <<ctlVars, loopVars, mem, wire, trace, sector, data,
                   ret, wcaller, rcaller, nfault, faithful>>

\* ------------------------------------------------------------- invocation
\* with serial.Serial(args.port[0], 115200, timeout=1) as vsu_rom:
Start ==
    /\ pc = "idle"
    /\ pending # <<>>
    /\ args' = Head(pending)
    /\ pending' = Tail(pending)
    /\ link' = "open"
    /\ pc' = "main"
    /\ outcome' = "running"
    /\ exc' = <<>>
    /\ faithful' = TRUE
    /\ memAtStart' = mem
    /\ wire' = <<>> /\ trace' = <<>> /\ sector' = 0 /\ data' = <<>>
    /\ ret' = <<>> /\ wcaller' = "" /\ rcaller' = ""
    /\ x' = 0 /\ base' = 0 /\ buf' = <<>> /\ fpos' = 0
    /\ UNCHANGED <<mem, outfile, nfault>>

\* The file count checks and the if / elif chain of the flags.
MainPc(a) ==
    IF Len(a.bin) > MaxFiles THEN "exit"
    ELSE IF a.dump THEN (IF Len(a.bin) # 1 THEN "exit" ELSE "dump_loop")
    ELSE IF a.write THEN (IF Len(a.bin) # 1 THEN "exit" ELSE "wi_open")
    ELSE IF a.info THEN "disp_factory"
    ELSE IF a.update THEN (IF Len(a.bin) # 1 THEN "exit" ELSE "upd")
    ELSE IF Len(a.game) > 0 \/ Len(a.custom) > 0 THEN "rom"
    ELSE "finish"

Main ==
    /\ pc = "main"
    /\ args.kind = "cli"
    /\ IF MainPc(args) = "exit"
       THEN Raise("SystemExit", <<"filenames">>)
       ELSE pc' = MainPc(args) /\ NoRaise
    /\ UNCHANGED <<ctlVars, loopVars, mem, outfile, wire, trace, sector, data,
                   ret, wcaller, rcaller, nfault, faithful>>

\* A direct caller's next call of the transport.
ApiNext ==
    /\ pc \in {"main", "api_next"}
    /\ args.kind = "api"
    /\ IF x < Len(args.calls)
       THEN LET c == args.calls[x + 1] IN
            /\ x' = x + 1
            /\ IF c[1] = "write_sector"
               THEN CallWrite(c[2], c[3], "api") /\ UNCHANGED rcaller
               ELSE CallRead(c[2], "api") /\ UNCHANGED <<data, wcaller>>
       ELSE /\ pc' = "finish"
            /\ UNCHANGED <<x, sector, data, wcaller, rcaller, trace>>
    /\ UNCHANGED <<ctlVars, outcome, exc, mem, outfile, wire, ret,
                   base, buf, fpos, nfault, faithful>>

\* print('operation complete')
Finish ==
    /\ pc = "finish"
    /\ outcome' = "complete"
    /\ pc' = "closing"
    /\ UNCHANGED <<ctlVars, loopVars, exc, mem, outfile, wire, trace, sector,
                   data, ret, wcaller, rcaller, nfault, faithful>>

\* Leaving the with block closes the port, on return and on exception.
Close ==
    /\ pc = "closing"
    /\ link' = "closed"
    /\ pc' = "idle"
    /\ UNCHANGED <<pending, args, memAtStart, loopVars, outcome, exc, mem,
                   outfile, wire, trace, sector, data, ret,
                   wcaller, rcaller, nfault, faithful>>

Next ==
    \/ Start
    \/ Main
    \/ ApiNext
    \/ ReadSector
    \/ WriteSector
    \/ DumpLoop
    \/ DumpExtend
    \/ WriteImageOpen
    \/ WriteImageLoop
    \/ RomPrepare
    \/ WriteRomLoop
    \/ UpdatePrepare
    \/ DisplayFactory
    \/ DisplayUser
    \/ DisplayShow
    \/ Finish
    \/ Close

Spec == Init /\ [][Next]_vars

\* The interpreter runs the program: a step that can be taken is taken.
FairSpec == Init /\ [][Next]_vars /\ WF_vars(Next)

\* =================================================================== claims
IsApi == args.kind = "api" /\ pc # "idle" /\ pc # "main"
\* The first call of a direct caller, when it is write_sector(i, d).
ApiWrites == IsApi /\ args.calls[1][1] = "write_sector"
ApiSector == args.calls[1][2]
ApiData == args.calls[1][3]
\* read_sector or write_sector has been called and has not run yet.
InTransport == pc \in {"read_sector", "write_sector"}
\* The last transport call is a write_sector that transmitted, or a
\* read_sector that did.
WriteTrace == Len(trace) > 0 /\ trace[1].bytes[1] = CmdWrite
ReadTrace == Len(trace) > 0 /\ trace[1].bytes[1] = CmdRead
Plus == <<AckByte>>

\* C1: on a device that behaves, write_sector(i, d) with i in 1..255 that
\* returned, followed at once by read_sector(i) that returned: the bytes read
\* are d.
C1_RoundTrip ==
    (/\ ApiWrites /\ Len(args.calls) = 2 /\ x = 2 /\ pc = "api_next"
     /\ ApiSector \in 1..255 /\ faithful)
    => ret = ApiData

C1_Witness ==
    /\ ApiWrites /\ Len(args.calls) = 2 /\ x = 2 /\ pc = "api_next"
    /\ ApiSector \in 1..255 /\ faithful
    /\ ret = ApiData /\ ret # memAtStart[ApiSector]

\* C2: no message on the link is a write command for sector 0 or for a sector
\* from 256 on; write_sector with such a sector returns to its caller with
\* nothing transmitted and nothing raised.
C2_FactoryNeverWritten ==
    /\ \A k \in 1..Len(wire) :
        (wire[k].kind = "cmd" /\ wire[k].bytes[1] = CmdWrite)
            => wire[k].bytes[2] \in 1..255
    /\ (ApiWrites /\ x = 1 /\ (ApiSector = 0 \/ ApiSector >= 256))
        => (wire = <<>> /\ outcome = "running" /\ pc \in {"write_sector", "api_next"})
    /\ (pc = "write_sector" /\ (sector = 0 \/ sector >= 256))
        => ENABLED (WriteSector /\ wire' = wire /\ outcome' = outcome
                    /\ pc' = WriteReturnPc(wcaller))

\* The restore has passed sector 0 with nothing sent and has written sector 1.
C2_Witness ==
    /\ args.kind = "cli" /\ args.write /\ pc = "wi_loop" /\ x = 2
    /\ Len(wire) = 3
    /\ wire[1] = Msg("cmd", WriteCommand(1))

\* C3 as claimed: write_sector(0, d) with a d of another length than a
\* sector's raises IncompleteDataException carrying len(d).
C3_LengthCheckedFirst ==
    (/\ ApiWrites /\ x = 1 /\ pc # "write_sector"
     /\ ApiSector = 0 /\ Len(ApiData) # SectorSize)
    => (outcome = "IncompleteDataException" /\ exc = <<Len(ApiData)>>)

\* C3 as amended: the sector check comes first.  write_sector(0, d) with a d
\* of the wrong length returns with nothing raised and nothing transmitted;
\* the length is checked, and IncompleteDataException(len(d)) raised, for
\* the sectors 1..255 only.
C3_SectorCheckedFirst ==
    (ApiWrites /\ x = 1 /\ pc # "write_sector" /\ Len(ApiData) # SectorSize)
    => /\ ApiSector = 0
            => (outcome = "running" /\ pc = "api_next" /\ wire = <<>>)
       /\ ApiSector \in 1..255
            => (outcome = "IncompleteDataException" /\ exc = <<Len(ApiData)>>
                /\ wire = <<>>)

C3_Witness ==
    /\ ApiWrites /\ x = 1 /\ pc = "api_next"
    /\ ApiSector = 0 /\ Len(ApiData) = SectorSize - 1
    /\ outcome = "running"

\* C4: a write_sector that transmitted has returned only after the
\* acknowledgment '+' and a read_sector of the same sector that returned
\* bytes equal to data; an acknowledgment other than '+', and a read-back
\* that returned other bytes, each raise WriteSectorException(sector).
C4_ReadBackVerified ==
    WriteTrace =>
        /\ outcome \in {"running", "complete"}
            => /\ Len(trace) = 7
               /\ trace[4] = Event("rx", 1, Plus)
               /\ trace[5] = Event("tx", 2, ReadCommand(sector))
               /\ trace[6].bytes = data
               /\ trace[7] = Event("rx", 1, Plus)
        /\ (Len(trace) >= 4 /\ trace[4].bytes # Plus)
            => (outcome = "WriteSectorException" /\ exc = <<sector>>
                /\ Len(trace) = 4)
        /\ (Len(trace) = 7 /\ trace[7].bytes = Plus /\ trace[6].bytes # data)
            => (outcome = "WriteSectorException" /\ exc = <<sector>>)

\* The device acknowledged the write, the read-back returned other bytes.
C4_Witness ==
    /\ WriteTrace /\ Len(trace) = 7
    /\ trace[4].bytes = Plus /\ trace[7].bytes = Plus
    /\ trace[6].bytes # data
    /\ outcome = "WriteSectorException" /\ exc = <<sector>>
    /\ sector \in 1..255 /\ Len(data) = SectorSize

\* C5: read_sector(sector) sends the two bytes [114, sector], reads a
\* sector's length of bytes, then one byte; it returns the bytes read if
\* that byte is '+', and raises ReadSectorException(sector) if it is another
\* byte or none.
ReadBase == IF ReadTrace THEN 0 ELSE 4
C5_ReadExchange ==
    (Len(trace) > ReadBase) =>
        LET b == ReadBase IN
        /\ Len(trace) = b + 3
        /\ trace[b + 1] = Event("tx", 2, <<114, sector>>)
        /\ wire[Len(wire)] = Msg("cmd", <<114, sector>>)
        /\ trace[b + 2].ev = "rx" /\ trace[b + 2].n = SectorSize
        /\ trace[b + 3].ev = "rx" /\ trace[b + 3].n = 1
        /\ IF trace[b + 3].bytes = Plus
           THEN /\ ret = trace[b + 2].bytes
                /\ outcome # "ReadSectorException"
           ELSE /\ outcome = "ReadSectorException"
                /\ exc = <<sector>>
                /\ pc \in {"closing", "idle"}

\* A read_sector whose acknowledgment timed out.
C5_Witness ==
    /\ ReadTrace /\ Len(trace) = 3
    /\ trace[3].bytes = <<>>
    /\ outcome = "ReadSectorException" /\ exc = <<sector>>

\* C6: an invocation that ended with IncompleteDataException, or with the
\* exit of the ROM size check or of the image size check, has written
\* nothing to the link, and the device holds what it held at the start.
C6_ValidationBeforeWire ==
    (\/ outcome = "IncompleteDataException"
     \/ (outcome = "SystemExit" /\ exc[1] \in {"ROM size", "image file size"}))
    => (wire = <<>> /\ trace = <<>> /\ mem = memAtStart)

C6_Witness ==
    /\ outcome = "SystemExit" /\ exc = <<"image file size">>
    /\ Len(ReadFile(args.bin[1]).body) = ImageSize - 1
    /\ link = "closed"

\* C7: the 16 sectors write_rom is given for a slot lie in 2..255 and meet
\* the 16 sectors of no other game or custom slot; write_rom calls
\* write_sector for these sectors only.
SlotArgs ==
    {Cli(FALSE, FALSE, FALSE, FALSE, <<g>>, <<>>, <<>>) : g \in Slots}
    \cup {Cli(FALSE, FALSE, FALSE, FALSE, <<>>, <<c>>, <<>>) : c \in Slots}
SlotRange(a) == {SlotSector(a) + k : k \in 0..(SlotSectors - 1)}
InWriteRom == pc = "wr_loop" \/ (pc = "write_sector" /\ wcaller = "write_rom")
C7_SlotsDisjoint ==
    InWriteRom =>
        LET range == {base + k : k \in 0..(SlotSectors - 1)} IN
        /\ range = SlotRange(args)
        /\ range \subseteq 2..255
        /\ \A b \in SlotArgs :
            (b.game # args.game \/ b.custom # args.custom)
                => range \cap SlotRange(b) = {}
        /\ pc = "write_sector" => sector \in range

\* Custom slot 0 has been written: sectors 114 to 129.
C7_Witness ==
    /\ pc = "wr_loop" /\ x = SlotSectors
    /\ args.custom = <<0>> /\ base = 114
    /\ wire[1] = Msg("cmd", WriteCommand(114))

\* C8: past the size check of the game / custom branch, a ROM input of half
\* a ROM's size has become a full ROM: the input, then 0xFF bytes; an input
\* of a ROM's size is unchanged; any other size ended the invocation with
\* nothing sent and no sector changed.  The bytes sent by a completed write
\* are the normalised ROM.
IsRom == args.kind = "cli" /\ MainPc(args) = "rom" /\ pc \notin {"main", "rom"}
RECURSIVE DataSent(_)
DataSent(w) ==
    IF w = <<>> THEN <<>>
    ELSE IF Head(w).kind = "data" THEN Head(w).bytes \o DataSent(Tail(w))
    ELSE DataSent(Tail(w))
C8_RomNormalised ==
    IsRom =>
        LET raw == RomData(args.bin) IN
        IF Len(raw) = HalfRomSize
        THEN /\ Len(buf) = RomSize
             /\ SubSeq(buf, 1, HalfRomSize) = raw
             /\ \A k \in (HalfRomSize + 1)..RomSize : buf[k] = 255
             /\ outcome = "complete" => DataSent(wire) = buf
        ELSE IF Len(raw) = RomSize
        THEN /\ buf = raw
             /\ outcome = "complete" => DataSent(wire) = buf
        ELSE /\ outcome = "SystemExit" /\ exc = <<"ROM size">>
             /\ wire = <<>> /\ mem = memAtStart

C8_Witness ==
    /\ IsRom /\ outcome = "complete"
    /\ Len(RomData(args.bin)) = HalfRomSize
    /\ Len(DataSent(wire)) = RomSize
    /\ mem[base + SlotSectors - 1] = Fill(SectorSize, 255)

\* C9: write_image on an image of the full size calls write_sector for
\* sector 0, 1, ..., 255 in this order, each with the image's bytes at
\* [k * sector size, (k + 1) * sector size); sector 0's bytes are read from
\* the file and never sent, so the link carries, for sector 1, 2, ... in
\* turn: the write command, that sector's bytes, the read-back command.
IsRestore ==
    /\ args.kind = "cli" /\ MainPc(args) = "wi_open" /\ pc \notin {"main", "wi_open"}
    /\ ReadFile(args.bin[1]).kind = "bin"
    /\ Len(ReadFile(args.bin[1]).body) = ImageSize
ImageBytes(k) ==
    SubSeq(ReadFile(args.bin[1]).body, k * SectorSize + 1, (k + 1) * SectorSize)
C9_RestoreOrder ==
    IsRestore =>
        /\ pc = "wi_loop" => fpos = SectorSize * x
        /\ pc = "write_sector"
            => (sector = x - 1 /\ data = ImageBytes(sector) /\ fpos = SectorSize * x)
        /\ \A j \in 1..Len(wire) :
            LET k == (j + 2) \div 3 IN
            wire[j] = CASE j % 3 = 1 -> Msg("cmd", <<119, k>>)
                        [] j % 3 = 2 -> Msg("data", ImageBytes(k))
                        [] OTHER -> Msg("cmd", <<114, k>>)
        /\ outcome = "complete" => (x = NumSectors /\ Len(wire) = 3 * (NumSectors - 1))

\* Sectors 0, 1 and 2 have been passed: the link has carried sector 1's and
\* sector 2's bytes, and sector 0 holds other bytes than the image's first.
C9_Witness ==
    /\ IsRestore /\ pc = "wi_loop" /\ x = 3
    /\ Len(wire) = 6
    /\ wire[1] = Msg("cmd", <<119, 1>>)
    /\ wire[2] = Msg("data", ImageBytes(1))
    /\ wire[5] = Msg("data", ImageBytes(2))
    /\ ImageBytes(0) # mem[0]

\* C10: dump_image on a device that behaves gathers the sectors 0, 1, ... in
\* this order, so its image D holds at slice k what the device held in
\* sector k (InitMem when dumped); a later write_image of D that completed
\* on a device that behaves leaves every sector 1..255 equal to its slice of
\* D, which is what the device held when dumped, and leaves sector 0 as it
\* was.
C10_DumpRestore ==
    /\ (/\ args.kind = "cli" /\ MainPc(args) = "dump_loop" /\ pc = "dump_loop"
        /\ faithful)
       => /\ Len(buf) = x * SectorSize
          /\ \A k \in 0..(x - 1) :
                SubSeq(buf, k * SectorSize + 1, (k + 1) * SectorSize) = mem[k]
    /\ (/\ args.write /\ args.bin = <<OutName>> /\ outcome = "complete"
        /\ outfile.kind = "bin" /\ faithful)
       => /\ Len(outfile.body) = ImageSize
          /\ \A k \in 1..(NumSectors - 1) :
                /\ mem[k] = SubSeq(outfile.body, k * SectorSize + 1,
                                   (k + 1) * SectorSize)
                /\ mem[k] = InitMem[k]
          /\ mem[0] = memAtStart[0]
          /\ \A j \in 1..Len(wire) : wire[j].bytes # WriteCommand(0)

\* The restore has put back the sectors a ROM write had changed since the dump.
C10_Witness ==
    /\ args.write /\ args.bin = <<OutName>> /\ outcome = "complete"
    /\ outfile.kind = "bin" /\ faithful
    /\ memAtStart[FirstRomSector] # InitMem[FirstRomSector]
    /\ mem = InitMem

\* A bulk write (write_rom or write_image) has got past its size checks.
IsBulkWrite ==
    /\ args.kind = "cli" /\ MainPc(args) \in {"rom", "wi_open"}
    /\ pc \notin {"main", "rom", "wi_open"}
    /\ outcome \notin {"SystemExit", "FileNotFoundError"}
TransportFailed == outcome \in {"WriteSectorException", "ReadSectorException"}
\* The first sector of the bulk write's range, and the bytes it gives
\* write_sector for sector s.
BulkFirst == IF MainPc(args) = "rom" THEN base ELSE 0
BulkData(s) ==
    IF MainPc(args) = "rom"
    THEN Slice(buf, (s - base) * SectorSize, (s - base) * SectorSize + SectorSize)
    ELSE ImageBytes(s)

\* C11: a bulk write whose write_sector failed at a sector has ended with
\* that failure, carrying the sector; the link has carried no command for a
\* later sector; and every earlier sector of the range (sector 0 apart,
\* which is never written) holds the bytes written to it.
C11_AbortNoRollback ==
    (IsBulkWrite /\ TransportFailed) =>
        /\ exc = <<sector>>
        /\ sector = BulkFirst + x - 1
        /\ pc \in {"closing", "idle"}
        /\ \A j \in 1..Len(wire) :
            wire[j].kind = "cmd" => wire[j].bytes[2] <= sector
        /\ \A s \in BulkFirst..(sector - 1) : s # 0 => mem[s] = BulkData(s)

\* write_rom failed at its second sector; the first holds the new bytes.
C11_Witness ==
    /\ IsBulkWrite /\ MainPc(args) = "rom"
    /\ outcome = "WriteSectorException" /\ x = 2 /\ link = "closed"
    /\ mem[base] = BulkData(base) /\ mem[base] # memAtStart[base]
    /\ mem[base + 1] = memAtStart[base + 1]

IsDump == args.kind = "cli" /\ MainPc(args) = "dump_loop" /\ pc # "main"

\* C12 as claimed: dump_image sends the read commands for sector 0, 1, ...
\* in this order; a read_sector that failed ended the dump with
\* ReadSectorException(sector), its command the last on the link, and no
\* output file; the bytes read for sector k stand at offset k * sector size
\* of the data gathered, and the file of a dump that completed holds a
\* whole image's bytes.
C12_DumpOutput ==
    IsDump =>
        /\ \A j \in 1..Len(wire) : wire[j] = Msg("cmd", <<114, j - 1>>)
        /\ outcome = "ReadSectorException"
            => (exc = <<sector>> /\ Len(wire) = sector + 1 /\ outfile = NoFile
                /\ pc \in {"closing", "idle"})
        /\ (pc = "dump_loop" /\ x > 0)
            => Slice(buf, (x - 1) * SectorSize, x * SectorSize) = ret
        /\ outcome = "complete"
            => (outfile.kind = "bin" /\ Len(outfile.body) = ImageSize)

\* read_sector(0) returned fewer bytes than a sector's, with '+' after them,
\* and the dump went on: sector 1's bytes will not stand at their offset.
C12_Witness ==
    /\ IsDump /\ pc = "dump_loop" /\ x = 1 /\ outcome = "running"
    /\ trace[3].bytes = Plus
    /\ Len(ret) < SectorSize /\ buf = ret

\* The slot's first sector and the ROM written, by the claim's arithmetic.
SlotStart ==
    IF Len(args.game) > 0 THEN 2 + 16 * args.game[1]
    ELSE 2 + 16 * args.custom[1] + 112
NormalRom ==
    LET raw == RomData(args.bin) IN
    IF Len(raw) = HalfRomSize THEN raw \o Fill(HalfRomSize, 255) ELSE raw

\* C13: a ROM write that is under way or has completed has put on the link,
\* for x = 0, 1, ... in turn, the write command for sector start + x, the
\* x-th sector-sized slice of the normalised ROM, and the read-back command;
\* a completed one has done so for exactly 16 sectors.  start is
\* 2 + 16 * index for a game and 2 + 16 * index + 112 for a custom slot:
\* custom slot 3 writes 162 .. 177.
C13_SlotWriteSequence ==
    (IsRom /\ (pc = "wr_loop" \/ outcome = "complete")) =>
        /\ Len(wire) = 3 * x
        /\ outcome = "complete" => x = 16
        /\ \A k \in 0..(x - 1) :
            /\ wire[3 * k + 1] = Msg("cmd", <<119, SlotStart + k>>)
            /\ wire[3 * k + 2] =
                 Msg("data", SubSeq(NormalRom, k * SectorSize + 1, (k + 1) * SectorSize))
            /\ wire[3 * k + 3] = Msg("cmd", <<114, SlotStart + k>>)
        /\ (args.custom = <<3>> /\ x = 16)
            => (wire[1].bytes = <<119, 162>> /\ wire[46].bytes = <<119, 177>>)

\* Half a ROM has been written to custom slot 3.
C13_Witness ==
    /\ IsRom /\ outcome = "complete" /\ args.custom = <<3>>
    /\ Len(RomData(args.bin)) = HalfRomSize
    /\ wire[1].bytes = <<119, 162>> /\ wire[46].bytes = <<119, 177>>
    /\ mem[162] = SubSeq(RomU9, 1, SectorSize)
    /\ mem[177] = Fill(SectorSize, 255)

\* C14: a link that is open is closed later, whatever way the invocation
\* ends; an invocation that has ended has its link closed; and a message is
\* put on the link only while it is open.
C14_LinkReleased ==
    /\ (link = "open") ~> (link = "closed")
    /\ [](pc = "idle" => link = "closed")
    /\ [][Len(wire') > Len(wire) => (link = "open" /\ link' = "open")]_vars

\* An update that ended on a missing configuration key, its link closed.
C14_Witness ==
    /\ args.kind = "cli" /\ args.update
    /\ outcome = "KeyError" /\ pc = "idle" /\ link = "closed"

\* update_configuration has encoded its file and called write_sector.
IsUpdate ==
    /\ args.kind = "cli" /\ MainPc(args) = "upd" /\ pc \notin {"main", "upd"}
    /\ outcome \notin {"KeyError", "ValueError", "FileNotFoundError"}

\* C15: the sector update_configuration encodes from 8 volumes and 8 sample
\* rate divisors has the volumes at bytes 0..7, the divisors at bytes 8..15
\* and 0xFF from byte 16 on; decoding it the way display_configuration does
\* gives the two collections back.  Volumes 0..7 with divisors 10..17 encode
\* to 0,..,7,10,..,17 and 0xFF after.
C15_EncodeDecode ==
    IsUpdate =>
        LET conf == ReadFile(args.bin[1]).body IN
        /\ Len(data) = SectorSize
        /\ \A c \in 0..7 :
            /\ data[c + 1] = conf.volume[ChannelKey(c)]
            /\ data[c + 9] = conf.sample_rate[ChannelKey(c)]
        /\ \A k \in 17..SectorSize : data[k] = 255
        /\ DecodeConf(data) = conf
        /\ args.bin = <<"conf.json">>
            => SubSeq(data, 1, 16) = <<0, 1, 2, 3, 4, 5, 6, 7, 10, 11, 12, 13, 14, 15, 16, 17>>

\* The update from conf.json has completed and the device holds its sector.
C15_Witness ==
    /\ IsUpdate /\ args.bin = <<"conf.json">> /\ outcome = "complete"
    /\ mem[1] = data /\ data # memAtStart[1]
    /\ data[8] = 7 /\ data[9] = 10 /\ data[17] = 255

\* The keys str(0) .. str(7) that the configuration file lacks.
MissingKeys(conf) ==
    {ChannelKey(c) : c \in {d \in AllChannels :
        \/ ChannelKey(d) \notin DOMAIN conf.volume
        \/ ChannelKey(d) \notin DOMAIN conf.sample_rate}}

\* C16: an update whose file lacks a volume or a sample rate entry of a
\* channel 0..7 has ended with KeyError naming a missing key, has put
\* nothing on the link, and the device holds what it held.
C16_NoPartialUpdate ==
    (/\ args.kind = "cli" /\ MainPc(args) = "upd" /\ pc \notin {"main", "upd"}
     /\ ReadFile(args.bin[1]).kind = "json"
     /\ MissingKeys(ReadFile(args.bin[1]).body) # {})
    => /\ outcome = "KeyError"
       /\ exc[1] \in MissingKeys(ReadFile(args.bin[1]).body)
       /\ wire = <<>>
       /\ mem = memAtStart

\* The file lacks the last channel's sample rate: every other entry was
\* encoded before the lookup failed, and nothing was sent.
C16_Witness ==
    /\ args.kind = "cli" /\ MainPc(args) = "upd" /\ args.bin = <<"norate.json">>
    /\ outcome = "KeyError" /\ exc = <<"7">>
    /\ wire = <<>> /\ link = "closed"

\* The positions of the commands in the last transport call's events.
TraceCmds == {i \in 1..Len(trace) : trace[i].ev = "tx" /\ trace[i].n = 2}

\* C17: a read_sector call makes one exchange: one command, two reads.  A
\* write_sector call that transmits sends its write command once and, after
\* a '+', one read-back command for the same sector, and nothing after an
\* acknowledgment that is not '+'.  A call that failed is the last to have
\* used the link, and its failure has ended the invocation.
C17_NoRetries ==
    /\ ReadTrace =>
        /\ TraceCmds = {1} /\ Len(trace) = 3
        /\ trace[1].bytes = ReadCommand(sector)
    /\ WriteTrace =>
        /\ trace[1].bytes = WriteCommand(sector)
        /\ IF trace[4].bytes = Plus
           THEN /\ TraceCmds = {1, 5} /\ Len(trace) = 7
                /\ trace[5].bytes = ReadCommand(sector)
           ELSE /\ TraceCmds = {1} /\ Len(trace) = 4
    /\ TransportFailed =>
        /\ pc \in {"closing", "idle"}
        /\ exc = <<sector>>
        /\ Len(wire) >= Len(Sent(trace))
        /\ SubSeq(wire, Len(wire) - Len(Sent(trace)) + 1, Len(wire)) = Sent(trace)
        /\ trace[Len(trace)].ev = "rx"
        /\ (trace[Len(trace)].bytes # Plus \/ trace[Len(trace) - 1].bytes # data)

\* A write whose read-back came back without '+': two commands, no third.
C17_Witness ==
    /\ WriteTrace /\ Len(trace) = 7
    /\ trace[4].bytes = Plus /\ trace[7].bytes # Plus
    /\ outcome = "ReadSectorException" /\ pc = "idle"
    /\ Len(wire) = 3

\* C18: the link events of a write_sector that transmitted are, in this
\* order: the command [119, sector], the sector's data, the sleep, the read
\* of 1 byte; and after a '+': the command [114, sector], the read of a
\* sector's length, the read of 1 byte.  Between two commands a 1 byte
\* acknowledgment is read, and a call that returned has read '+' last.
C18_WriteOrdering ==
    /\ WriteTrace =>
        /\ Len(trace) \in {4, 7}
        /\ trace[1] = Event("tx", 2, <<119, sector>>)
        /\ trace[2] = Event("tx", SectorSize, data)
        /\ trace[3].ev = "sleep"
        /\ trace[4].ev = "rx" /\ trace[4].n = 1
        /\ Len(trace) = 7 =>
            /\ trace[4].bytes = Plus
            /\ trace[5] = Event("tx", 2, <<114, sector>>)
            /\ trace[6].ev = "rx" /\ trace[6].n = SectorSize
            /\ trace[7].ev = "rx" /\ trace[7].n = 1
    /\ \A i, j \in TraceCmds :
        i < j => \E k \in (i + 1)..(j - 1) : trace[k].ev = "rx" /\ trace[k].n = 1
    /\ (trace # <<>> /\ outcome \in {"running", "complete"})
        => trace[Len(trace)] = Event("rx", 1, Plus)

\* The restore has written sector 1 and its read-back matched.
C18_Witness ==
    /\ WriteTrace /\ Len(trace) = 7 /\ outcome = "running"
    /\ args.kind = "cli" /\ args.write /\ pc = "wi_loop" /\ sector = 1
    /\ trace[3].ev = "sleep" /\ trace[6].bytes = data

\* The last transport call is a write_sector that transmitted and failed.
WriteFailed == WriteTrace /\ outcome \notin {"running", "complete"}

\* C19 as claimed: every failure of a write_sector that transmitted is
\* WriteSectorException(sector).
C19_AlwaysWriteFailure ==
    WriteFailed => (outcome = "WriteSectorException" /\ exc = <<sector>>)

\* C19 as amended: a write acknowledgment that is not '+', and a read-back
\* that returned other bytes than data, raise WriteSectorException(sector);
\* a read-back whose own acknowledgment is missing or not '+' raises
\* ReadSectorException(sector), which leaves write_sector unchanged.
C19_ReadBackAckIsReadFailure ==
    WriteFailed =>
        /\ exc = <<sector>>
        /\ IF trace[4].bytes # Plus
           THEN outcome = "WriteSectorException" /\ Len(trace) = 4
           ELSE IF trace[7].bytes # Plus
           THEN outcome = "ReadSectorException"
           ELSE outcome = "WriteSectorException" /\ trace[6].bytes # data

\* The write was acknowledged, the read-back returned the data written, and
\* its acknowledgment timed out.
C19_Witness ==
    /\ WriteFailed /\ sector \in 1..255 /\ Len(data) = SectorSize
    /\ trace[4].bytes = Plus
    /\ trace[6].bytes = data /\ trace[7].bytes = <<>>
    /\ outcome = "ReadSectorException" /\ exc = <<sector>>

\* The invocation is a dump or an info operation past its checks.
IsReadOnly ==
    /\ args.kind = "cli" /\ MainPc(args) \in {"dump_loop", "disp_factory"}
    /\ pc # "main"

\* C20: in a dump and in an info operation every message put on the link
\* is a read command, opcode 114, and the device holds what it held when
\* the operation began, whether it has completed, failed, or is under way.
C20_ReadOnly ==
    IsReadOnly =>
        /\ \A j \in 1..Len(wire) :
            /\ wire[j].kind = "cmd"
            /\ wire[j].bytes[1] = 114
            /\ wire[j].bytes[1] # 119
        /\ mem = memAtStart

\* An info operation that failed at its second read.
C20_Witness ==
    /\ IsReadOnly /\ args.info
    /\ outcome = "ReadSectorException" /\ exc = <<1>>
    /\ wire = <<Msg("cmd", <<114, 0>>), Msg("cmd", <<114, 1>>)>>
    /\ mem = memAtStart /\ link = "closed"
=============================================================================
